---- MODULE Spec2Model ----
(***************************************************************************)
(* liblatlng (include/liblatlng.hpp): angle normalisation                  *)
(* (Degree::normalizeRelative, Degree::normalizeAbsolute) and the two      *)
(* spherical formulas of BasicLatLng<T> (distanceFrom, azimuthFrom), for   *)
(* the two instantiations the header names, T = double (LatLng) and        *)
(* T = float (LatLngF).                                                    *)
(*                                                                         *)
(* Numbers.  A value of type T is NaN, +infinity, -infinity or a finite    *)
(* binary fraction hi + fh/2^23 + fl/2^46 (hi any integer, 0 <= fh, fl <   *)
(* 2^23), held exactly.  Every arithmetic result is rounded to the 53      *)
(* (double) or 24 (float) significant bits of its type, to nearest, ties   *)
(* to even, as IEEE 754 does.  2^-46 is fine enough to hold the doubles    *)
(* next to 180 and 360 and values below half an ulp of 360.                *)
(***************************************************************************)
EXTENDS Integers, FiniteSets, Sequences, TLC

\* ------------------------------------------------------------ numbers

\* 46 fractional bits, in two limbs.
LimbBits == 46 \div 2
Limb == 2^LimbBits

Fin(hi, fh, fl) == [k |-> "fin", hi |-> hi, fh |-> fh, fl |-> fl]
Whole(n) == Fin(n, 0, 0)
Zero == Whole(0)
NaN == [k |-> "nan", hi |-> 0, fh |-> 0, fl |-> 0]
PosInf == [k |-> "pinf", hi |-> 0, fh |-> 0, fl |-> 0]
NegInf == [k |-> "ninf", hi |-> 0, fh |-> 0, fl |-> 0]

\* A build in which the NaN test never fires.
isnanNever(x) == FALSE

\* std::isnan
isnan(x) == x.k = "nan"

\* x < y on T: false when either side is NaN.
Lt(x, y) ==
    CASE x.k = "nan" \/ y.k = "nan" -> FALSE
      [] x.k = "ninf" -> y.k # "ninf"
      [] x.k = "pinf" -> FALSE
      [] y.k = "pinf" -> TRUE
      [] y.k = "ninf" -> FALSE
      [] OTHER -> \/ x.hi < y.hi
                  \/ x.hi = y.hi /\ x.fh < y.fh
                  \/ x.hi = y.hi /\ x.fh = y.fh /\ x.fl < y.fl

Gt(x, y) == Lt(y, x)

\* x >= y on T: false when either side is NaN.
Ge(x, y) == x.k # "nan" /\ y.k # "nan" /\ ~Lt(x, y)

\* Limbs that reached 2^23 carry into the next one.
Carry(hi, fh, fl) ==
    LET fh2 == fh + (fl \div Limb)
    IN  Fin(hi + (fh2 \div Limb), fh2 % Limb, fl % Limb)

\* -x of a finite x.
Neg(x) ==
    IF x.fl > 0 THEN Fin(-x.hi - 1, Limb - 1 - x.fh, Limb - x.fl)
    ELSE IF x.fh > 0 THEN Fin(-x.hi - 1, Limb - x.fh, 0)
    ELSE Fin(-x.hi, 0, 0)

\* The exact sum of two finite values.
Plus(x, y) == Carry(x.hi + y.hi, x.fh + y.fh, x.fl + y.fl)

\* floor(log2 n) of 1 <= n < 2^31, by halving the range.
Log2(n) ==
    LET a == IF n >= 2^16 THEN 16 ELSE 0
        b == IF n \div 2^a >= 2^8 THEN 8 ELSE 0
        c == IF n \div 2^(a + b) >= 2^4 THEN 4 ELSE 0
        d == IF n \div 2^(a + b + c) >= 2^2 THEN 2 ELSE 0
        e == IF n \div 2^(a + b + c + d) >= 2 THEN 1 ELSE 0
    IN  a + b + c + d + e

\* floor(log2 m) of a finite m > 0.
Exponent(m) ==
    IF m.hi > 0 THEN Log2(m.hi)
    ELSE IF m.fh > 0 THEN Log2(m.fh) - LimbBits
    ELSE Log2(m.fl) - 2 * LimbBits

\* Significant bits of T.
MantissaBits(T) == IF T = "double" THEN 53 ELSE 24

\* m >= 0 with its t lowest bits (bits of 2^-46) rounded away, to nearest,
\* ties to even.
RoundMag(m, t) ==
    IF t <= 0 THEN m
    ELSE IF t <= LimbBits THEN
        LET q == 2^t
            rem == m.fl % q
            half == q \div 2
            odd == IF t = LimbBits THEN m.fh % 2 = 1 ELSE (m.fl \div q) % 2 = 1
            up == rem > half \/ (rem = half /\ odd)
        IN  Carry(m.hi, m.fh, m.fl - rem + (IF up THEN q ELSE 0))
    ELSE IF t <= 2 * LimbBits THEN
        LET q == 2^(t - LimbBits)
            rem == m.fh % q
            half == q \div 2
            odd == IF t = 2 * LimbBits THEN m.hi % 2 = 1 ELSE (m.fh \div q) % 2 = 1
            up == \/ rem > half
                  \/ rem = half /\ m.fl > 0
                  \/ rem = half /\ m.fl = 0 /\ odd
        IN  Carry(m.hi, m.fh - rem + (IF up THEN q ELSE 0), 0)
    ELSE
        LET q == 2^(t - 2 * LimbBits)
            rem == m.hi % q
            half == q \div 2
            odd == (m.hi \div q) % 2 = 1
            frac == m.fh > 0 \/ m.fl > 0
            up == \/ rem > half
                  \/ rem = half /\ frac
                  \/ rem = half /\ ~frac /\ odd
        IN  Fin(m.hi - rem + (IF up THEN q ELSE 0), 0, 0)

\* x as a value of type T: the conversion every assignment to a T makes.
Round(T, x) ==
    IF x.k # "fin" \/ x = Zero THEN x
    ELSE LET neg == x.hi < 0
             m == IF neg THEN Neg(x) ELSE x
             r == RoundMag(m, Exponent(m) - MantissaBits(T) + 1 + 2 * LimbBits)
         IN  IF neg THEN Neg(r) ELSE r

\* A loop body that moves by half a turn only.
AddAssignHalf(T, deg, n) ==
    LET sum == Round("double", Plus(deg, Whole(n \div 2)))
    IN  IF T = "double" THEN sum ELSE Round(T, sum)

\* deg += n (n = 360.0 or -360.0, a double literal) on a finite deg of type
\* T: the sum is formed in double and stored back as a T.
AddAssign(T, deg, n) ==
    LET sum == Round("double", Plus(deg, Whole(n)))
    IN  IF T = "double" THEN sum ELSE Round(T, sum)

\* ------------------------------------------------------------ constants

\* 1e9, the magnitude above which the normalisations give up.
Limit == 1000000000

\* kEarthRadius, metres.
kEarthRadius == 6378137

\* Constants::pi.  Radians are held exactly, as whole multiples of pi/2:
\* the unit is a quarter turn, and pi is two of them.
Pi == 2

Types == {"double", "float"}
NormalizeOps == {"normalizeRelative", "normalizeAbsolute"}
PointOps == {"distanceFrom", "azimuthFrom"}

\* ------------------------------------------------------------ Degree

toRadian(deg) == (deg * Pi) \div 180

fromRadian(rad) == (rad * 180) \div Pi

\* The first loop runs while deg >= Upper, the second while deg < Lower.
Upper(fn) == IF fn = "normalizeRelative" THEN Whole(180) ELSE Whole(360)
Lower(fn) == IF fn = "normalizeRelative" THEN Whole(-180) ELSE Zero

\* ------------------------------------------------------------ <cmath>
\* Exact values at whole multiples of pi/2.

sin(r) == CASE r % 4 = 0 -> 0 [] r % 4 = 1 -> 1 [] r % 4 = 2 -> 0 [] OTHER -> -1

cos(r) == sin(r + 1)

\* Undefined at odd multiples of pi/2.
tan(r) == sin(r) \div cos(r)

\* acos of -1, 0, 1.
acos(c) == CASE c = 1 -> 0 [] c = 0 -> 1 [] c = -1 -> Pi

\* atan2 on the axes; atan2(0, 0) = 0.
atan2(y, x) ==
    CASE y = 0 /\ x >= 0 -> 0
      [] y = 0 /\ x < 0 -> Pi
      [] y > 0 /\ x = 0 -> 1
      [] y < 0 /\ x = 0 -> -1

\* ------------------------------------------------------------ state

VARIABLES
    op,     \* the operation called
    T,      \* the floating-point type of the instantiation
    arg,    \* the caller's angle, passed to a normalisation
    self,   \* the receiver point, [lat, lng] in degrees
    other,  \* the argument point
    pc,     \* where the call is: call, isnan, limit, loop1, loop2, done
    deg,    \* the normalisation's parameter, a copy of its argument
    angle,  \* azimuthFrom's fromRadian(atan2(y, x))
    iters,  \* executions of a loop body so far
    exit,   \* the return statement taken
    ret     \* the value returned

vars == <<op, T, arg, self, other, pc, deg, angle, iters, exit, ret>>

\* azimuthFrom passes a double (T + 180.0) to normalizeAbsolute, whatever T is.
fn == IF op = "azimuthFrom" THEN "normalizeAbsolute" ELSE op
Tn == IF op = "azimuthFrom" THEN "double" ELSE T

\* ------------------------------------------------------------ inputs

\* Angles up to MaxTurns full turns either side of zero are tried.
MaxTurns == 3

\* 2^-e, for 1 <= e <= 46.
Pow2Neg(e) ==
    IF e <= LimbBits THEN Fin(0, 2^(LimbBits - e), 0)
    ELSE Fin(0, 0, 2^(2 * LimbBits - e))

\* The last places of a float (2^-15 .. 2^-17) and of a double (2^-44 ..
\* 2^-46) next to 180 and 360.
FineSteps == {15, 16, 17, 44, 45, 46}

Marks == {90 * k : k \in (-4 * MaxTurns) .. (4 * MaxTurns)}

Samples ==
    {NaN, PosInf, NegInf}
    \cup {Whole(n) : n \in Marks}
    \cup {Plus(Whole(n), Pow2Neg(1)) : n \in Marks}
    \cup {Plus(Whole(n), Pow2Neg(e)) : n \in {-360, -180, 0, 180, 360}, e \in FineSteps}
    \cup {Plus(Whole(n), Neg(Pow2Neg(e))) : n \in {-360, -180, 0, 180, 360}, e \in FineSteps}
    \cup {Whole(400000), Whole(-400000)}
    \cup {Whole(2 * Limit), Whole(-2 * Limit)}
    \cup {Plus(Whole(Limit), Pow2Neg(LimbBits)), Neg(Plus(Whole(Limit), Pow2Neg(LimbBits)))}
    \cup {Whole(Limit + 64), Whole(-Limit - 64)}

\* The samples a T can hold.
Angles(t) == {x \in Samples : Round(t, x) = x}

\* The limit itself (the longest run), values just beyond it, and the
\* smallest float from which a subtraction of 360 is rounded (2^27 + 368).
LargeSamples ==
    {NaN, PosInf, NegInf}
    \cup {Whole(Limit)}
    \cup {Whole(2 * Limit), Whole(-2 * Limit)}
    \cup {Plus(Whole(Limit), Pow2Neg(LimbBits)), Neg(Plus(Whole(Limit), Pow2Neg(LimbBits)))}
    \cup {Whole(Limit + 64), Whole(-Limit - 64)}
    \cup {Whole(2^27 + 368), Whole(-(2^27) - 368)}

LargeAngles(t) == {x \in LargeSamples : Round(t, x) = x}

Origin == [lat |-> 0, lng |-> 0]

Points == [lat : {-90, 0, 90}, lng : {-180, -90, 0, 90, 180}]

\* ------------------------------------------------------------ BasicLatLng

\* The longitudes added where they are to be subtracted.
distanceSum(p, q) ==
    LET latRadian == toRadian(p.lat)
        lngRadian == toRadian(p.lng)
        otherLatRadian == toRadian(q.lat)
        otherLngRadian == toRadian(q.lng)
        lngRadianDiff == otherLngRadian + lngRadian
    IN  kEarthRadius * acos(sin(latRadian) * sin(otherLatRadian)
                            + cos(latRadian) * cos(otherLatRadian) * cos(lngRadianDiff))

\* lines 155-166: R * acos(sin sin + cos cos cos), in exact arithmetic; the
\* result is a whole multiple of pi/2 metres.
distance(p, q) ==
    LET latRadian == toRadian(p.lat)
        lngRadian == toRadian(p.lng)
        otherLatRadian == toRadian(q.lat)
        otherLngRadian == toRadian(q.lng)
        lngRadianDiff == otherLngRadian - lngRadian
    IN  kEarthRadius * acos(sin(latRadian) * sin(otherLatRadian)
                            + cos(latRadian) * cos(otherLatRadian) * cos(lngRadianDiff))

\* Both points on the equator, a quarter turn apart: every operand of lines
\* 181-182 is exact in floating point (sin 0 = tan 0 = 0, cos 0 = 1,
\* sin(+-pi/2) = +-1).  Anywhere else the rounding of pi decides x or y
\* (cos(pi/2) and sin(pi) are not 0, tan(pi/2) is finite).
ExactOperands(p, q) == p.lat = 0 /\ q.lat = 0 /\ (q.lng - p.lng) % 180 # 0

\* lines 173-183 up to fromRadian(atan2(y, x)): the angle in degrees, exact
\* where the operands are, and otherwise any angle atan2 can return.
atan2Degrees(t, p, q) ==
    LET latRadian == toRadian(p.lat)
        lngRadian == toRadian(p.lng)
        otherLatRadian == toRadian(q.lat)
        otherLngRadian == toRadian(q.lng)
        lngRadianDiff == otherLngRadian - lngRadian
        y == sin(lngRadianDiff)
        x == cos(latRadian) * tan(otherLatRadian) - sin(latRadian) * cos(lngRadianDiff)
    IN  IF ExactOperands(p, q)
        THEN {Whole(fromRadian(atan2(y, x)))}
        ELSE {a \in Angles(t) : Ge(a, Whole(-180)) /\ Ge(Whole(180), a)}

\* The half turn left out.
SkipHalfTurn(a) == a

\* a + 180.0: a T plus a double literal, a double.
AddHalfTurn(a) == Round("double", Plus(a, Whole(180)))

\* ------------------------------------------------------------ behaviour

Init ==
    /\ op \in NormalizeOps \cup PointOps
    /\ T \in Types
    /\ IF op \in NormalizeOps
       THEN arg \in Angles(T) /\ self = Origin /\ other = Origin
       ELSE arg = Zero /\ self \in Points /\ other \in Points
    /\ pc = "call"
    /\ deg = Zero
    /\ angle = Zero
    /\ iters = 0
    /\ exit = "none"
    /\ ret = Zero

\* `return v`: the value converted to the function's return type.  For
\* azimuthFrom that turns normalizeAbsolute's double into a T.
Return(v, how) ==
    /\ ret' = Round(T, v)
    /\ exit' = how
    /\ pc' = "done"
    /\ UNCHANGED <<op, T, arg, self, other, deg, angle, iters>>

Goto(label) ==
    /\ pc' = label
    /\ UNCHANGED <<op, T, arg, self, other, deg, angle, iters, exit, ret>>

\* A loop body working on the caller's variable (T & deg).
BodyByReference(n) ==
    /\ deg' = AddAssign(Tn, deg, n)
    /\ arg' = deg'
    /\ iters' = iters + 1
    /\ UNCHANGED <<op, T, self, other, pc, angle, exit, ret>>

\* One execution of a loop body: deg += n.
Body(n) ==
    /\ deg' = AddAssign(Tn, deg, n)
    /\ iters' = iters + 1
    /\ UNCHANGED <<op, T, arg, self, other, pc, angle, exit, ret>>

\* normalizeRelative(arg) or normalizeAbsolute(arg): deg is passed by value.
Enter ==
    /\ pc = "call"
    /\ op \in NormalizeOps
    /\ deg' = arg
    /\ pc' = "isnan"
    /\ UNCHANGED <<op, T, arg, self, other, angle, iters, exit, ret>>

\* if (std::isnan(deg)) return deg;
CheckNaN ==
    /\ pc = "isnan"
    /\ \/ isnan(deg) /\ Return(deg, "isnan")
       \/ ~isnan(deg) /\ Goto("limit")

\* if (deg > 1e9 || deg < -1e9) return 0.0;
CheckLimit ==
    /\ pc = "limit"
    /\ \/ (Gt(deg, Whole(Limit)) \/ Lt(deg, Whole(-Limit))) /\ Return(Zero, "limit")
       \/ ~(Gt(deg, Whole(Limit)) \/ Lt(deg, Whole(-Limit))) /\ Goto("loop1")

\* while (deg >= 180.0 or 360.0) deg -= 360.0;
Loop1 ==
    /\ pc = "loop1"
    /\ \/ Ge(deg, Upper(fn)) /\ Body(-360)
       \/ ~Ge(deg, Upper(fn)) /\ Goto("loop2")

\* while (deg < -180.0 or 0.0) deg += 360.0;  return deg;
Loop2 ==
    /\ pc = "loop2"
    /\ \/ Lt(deg, Lower(fn)) /\ Body(360)
       \/ ~Lt(deg, Lower(fn)) /\ Return(deg, "loop")

distanceFrom ==
    /\ pc = "call"
    /\ op = "distanceFrom"
    /\ ret' = Whole(distance(self, other))
    /\ exit' = "value"
    /\ pc' = "done"
    /\ UNCHANGED <<op, T, arg, self, other, deg, angle, iters>>

\* normalizeAbsolute(fromRadian(atan2(y, x)) + 180.0): the sum is a double,
\* and the call runs from its first line.
azimuthFrom ==
    /\ pc = "call"
    /\ op = "azimuthFrom"
    /\ \E a \in atan2Degrees(T, self, other) :
          /\ angle' = a
          /\ deg' = AddHalfTurn(a)
    /\ pc' = "isnan"
    /\ UNCHANGED <<op, T, arg, self, other, iters, exit, ret>>

Normalize == Enter \/ CheckNaN \/ CheckLimit \/ Loop1 \/ Loop2

Next == Normalize \/ distanceFrom \/ azimuthFrom

Spec == Init /\ [][Next]_vars

\* The normalisations alone, on the large inputs as well.
InitLarge ==
    /\ op \in NormalizeOps
    /\ T \in Types
    /\ arg \in Angles(T) \cup LargeAngles(T)
    /\ self = Origin
    /\ other = Origin
    /\ pc = "call"
    /\ deg = Zero
    /\ angle = Zero
    /\ iters = 0
    /\ exit = "none"
    /\ ret = Zero

SpecLarge == InitLarge /\ [][Normalize]_vars

\* ------------------------------------------------------------ claims

\* A finite input within the limit: neither NaN nor given up on.
NonEscaped(x) == x.k = "fin" /\ Ge(x, Whole(-Limit)) /\ Ge(Whole(Limit), x)

\* x - y is a whole multiple of 360.
Congruent(x, y) ==
    x.k = "fin" /\ y.k = "fin" /\ x.fh = y.fh /\ x.fl = y.fl /\ (x.hi - y.hi) % 360 = 0

\* The remainder of x by 360 with the sign of x, as C's % and fmod give it.
Fmod360(x) ==
    IF x.hi >= 0 THEN Fin(x.hi % 360, x.fh, x.fl)
    ELSE LET m == Neg(x) IN Neg(Fin(m.hi % 360, m.fh, m.fl))

\* ((d mod 360) + 360) mod 360, in exact arithmetic.
ClosedAbsolute(d) == Fmod360(Plus(Fmod360(d), Whole(360)))

\* The same angle in [-180, 180).
ClosedRelative(d) ==
    IF Lt(ClosedAbsolute(d), Whole(180)) THEN ClosedAbsolute(d)
    ELSE Plus(ClosedAbsolute(d), Whole(-360))

Returned(f) == pc = "done" /\ op = f

\* C1: for every non-NaN d with -1e9 <= d <= 1e9, normalizeRelative(d) is
\* in [-180, 180) and differs from d by a whole multiple of 360.
C1_RelativeInRangeAndCongruent ==
    (Returned("normalizeRelative") /\ NonEscaped(arg))
        => /\ Ge(ret, Whole(-180)) /\ Lt(ret, Whole(180))
           /\ Congruent(ret, arg)

\* C2: for every non-NaN d with -1e9 <= d <= 1e9, normalizeAbsolute(d) is
\* in [0, 360) and differs from d by a whole multiple of 360.
C2_AbsoluteInRangeAndCongruent ==
    (Returned("normalizeAbsolute") /\ NonEscaped(arg))
        => /\ Ge(ret, Zero) /\ Lt(ret, Whole(360))
           /\ Congruent(ret, arg)

OnEquator(p, q, lngP, lngQ) ==
    p = [lat |-> 0, lng |-> lngP] /\ q = [lat |-> 0, lng |-> lngQ]

\* C3, as claimed: from self = (0, 0) with other = (0, 90) the bearing
\* returned is 90, the direction from self to other.
C3_ForwardBearing ==
    (Returned("azimuthFrom") /\ OnEquator(self, other, 0, 90)) => ret = Whole(90)

\* C3, amended: the bearing returned is the one from other toward self.
\* With self = (0, 0) and other = (0, 90) the atan2 angle is 90, the
\* direction from self to other, and the value returned is 270, its
\* reverse; with the two points exchanged it is 90.
C3_BearingFromOther ==
    /\ (Returned("azimuthFrom") /\ OnEquator(self, other, 0, 90))
           => angle = Whole(90) /\ ret = Whole(270)
    /\ (Returned("azimuthFrom") /\ OnEquator(self, other, 90, 0))
           => angle = Whole(-90) /\ ret = Whole(90)

C3_Witness ==
    Returned("azimuthFrom") /\ OnEquator(self, other, 0, 90) /\ ret = Whole(270)

\* C4: whatever angle a in [-180, 180] atan2 gives, the bearing returned
\* is in [0, 360); a = -180 and a = 180 both give 0.
C4_BearingInRange ==
    Returned("azimuthFrom")
        => /\ Ge(ret, Zero) /\ Lt(ret, Whole(360))
           /\ angle \in {Whole(-180), Whole(180)} => ret = Zero

\* C5, as claimed: the two loops of a call run a few hundred times at most.
C5_FewHundredIterations == iters <= 999

\* C5, amended: a call runs its loop bodies at most |d| / 352 + 1 times, and
\* never more than 1e9 / 360 + 1 = 2,777,778 times.
C5_IterationBound ==
    op \in NormalizeOps
        => /\ iters * 352 <= (IF arg.hi < 0 THEN Neg(arg).hi ELSE arg.hi) + 352
           /\ iters <= Limit \div 360 + 1

\* normalizeRelative(1e9) takes all 2,777,778 iterations.
C5_Witness == pc = "done" /\ exit = "loop" /\ iters = Limit \div 360 + 1

\* C6: 0 is returned by the limit check, with no loop iteration, exactly
\* when the input is above 1e9 or below -1e9; 1e9 and -1e9 themselves go
\* through the loops and come out as their representative modulo 360.
C6_EscapeExactlyBeyondLimit ==
    (pc = "done" /\ op \in NormalizeOps /\ arg # NaN)
        => /\ exit = "limit" <=> (Gt(arg, Whole(Limit)) \/ Lt(arg, Whole(-Limit)))
           /\ exit = "limit" => ret = Zero /\ iters = 0
           /\ arg \in {Whole(Limit), Whole(-Limit)}
                 => /\ exit = "loop"
                    /\ ret # Zero
                    /\ ret = IF op = "normalizeAbsolute" THEN ClosedAbsolute(arg)
                                                         ELSE ClosedRelative(arg)

\* C7: a NaN input is returned by the first check: the call never reaches
\* the limit check or a loop, runs no iteration and returns NaN.
C7_NaNReturnedAtFirstCheck ==
    (op \in NormalizeOps /\ arg = NaN)
        => /\ pc \in {"call", "isnan", "done"}
           /\ iters = 0
           /\ pc = "done" => ret = NaN /\ exit = "isnan"

C7_Witness ==
    Returned("normalizeAbsolute") /\ arg = NaN /\ ret = NaN /\ exit = "isnan"

\* C8: the distance from a point to itself is 0 (in exact arithmetic).
C8_DistanceToSelfIsZero ==
    (Returned("distanceFrom") /\ self = other) => ret = Zero

C8_Witness ==
    Returned("distanceFrom") /\ self = other /\ self = [lat |-> 90, lng |-> -90] /\ ret = Zero

\* C9: no step of any operation changes the caller's angle or either
\* point; a normalisation changes its own copy only.
C9_CallerStateUnchanged ==
    [][arg' = arg /\ self' = self /\ other' = other]_vars

C9_Witness ==
    pc = "done" /\ op \in NormalizeOps /\ iters > 0 /\ deg # arg /\ ret = deg

\* C10: for every non-NaN d with -1e9 <= d <= 1e9, normalizeAbsolute(d) is
\* ((d mod 360) + 360) mod 360, and normalizeRelative(d) is that value, less
\* 360 when it is 180 or more.
C10_MatchesClosedForm ==
    (pc = "done" /\ op \in NormalizeOps /\ NonEscaped(arg))
        => ret = IF op = "normalizeAbsolute" THEN ClosedAbsolute(arg)
                                             ELSE ClosedRelative(arg)

====
